---- MODULE Spec2Model ----
(***************************************************************************)
(* Model of the bounded proof-of-work search endpoint POST /api/mine of   *)
(* src/main.py (MineRequest, MineResult, mine).                            *)
(*                                                                         *)
(* Strings are sequences of one-character strings.  The monotonic clock    *)
(* time.perf_counter() is a shared counter `now` in milliseconds, so that  *)
(* deadline = start + time_limit_ms / 1000.0 seconds becomes               *)
(* start + time_limit_ms.  hashlib.sha256 is an arbitrary but fixed total  *)
(* function of its payload: its value at a payload is chosen the first     *)
(* time the payload is hashed and is the same ever after (sha256table).    *)
(***************************************************************************)
EXTENDS Integers, Sequences, FiniteSets, TLC

\* ---------------------------------------------------------------- bounds
MaxHashes == 2        \* largest max_hashes of a request that enters the loop
MaxZeros == 2         \* most leading '0' characters of a modelled digest
MaxClock == 1         \* the clock stops ticking here

\* ------------------------------------------------------ program constants
HardCap == 1000000    \* main.py:92
MinDifficulty == 1    \* main.py:22  conint(ge=1, ...)
MaxDifficulty == 7    \* main.py:22  conint(..., le=7)
DigestLen == 64       \* hexdigest() of a 256-bit hash
HTTP_OK == 200
HTTP_BAD_REQUEST == 400
HTTP_UNPROCESSABLE == 422

\* Optional values: None is the empty sequence, a present integer n is <<n>>,
\* a present digest is the digest itself (never empty).
None == << >>
Some(x) == <<x>>
NoStatus == 0         \* no response sent yet
Reqs == {"r1", "r2"}  \* two concurrent invocations of the endpoint

\* ------------------------------------------------------------- strings
RECURSIVE Repeat(_, _)
\* "0" * n : n copies of c, the empty string when n <= 0
Repeat(c, n) == IF n <= 0 THEN << >> ELSE <<c>> \o Repeat(c, n - 1)

DigitChar(d) == CASE d = 0 -> "0" [] d = 1 -> "1" [] d = 2 -> "2" [] d = 3 -> "3"
                  [] d = 4 -> "4" [] d = 5 -> "5" [] d = 6 -> "6" [] d = 7 -> "7"
                  [] d = 8 -> "8" [] d = 9 -> "9"

RECURSIVE Digits(_)
Digits(n) == IF n < 10 THEN <<DigitChar(n)>>
             ELSE Digits(n \div 10) \o <<DigitChar(n % 10)>>

\* str(int) as formatted by f"{nonce}"
ToDecimal(n) == IF n < 0 THEN <<"-">> \o Digits(0 - n) ELSE Digits(n)

\* a comparison of the first character only
StartsWithFirstChar(digest, prefix) ==
    Len(prefix) = 0 \/ (Len(digest) > 0 /\ digest[1] = prefix[1])

\* digest.startswith(prefix)
StartsWith(digest, prefix) ==
    /\ Len(prefix) <= Len(digest)
    /\ SubSeq(digest, 1, Len(prefix)) = prefix

RECURSIVE LeadingZerosFrom(_, _)
LeadingZerosFrom(s, i) ==
    IF i > Len(s) \/ s[i] # "0" THEN 0 ELSE 1 + LeadingZerosFrom(s, i + 1)

\* number of leading '0' characters of a string
LeadingZeros(s) == LeadingZerosFrom(s, 1)

\* ------------------------------------------------------------- digests
\* The digests the hash may produce: z leading zeros, then a non-zero hex
\* digit, then further hex digits (zeros among them), 64 characters in all.
MkDigest(z) ==
    [i \in 1..DigestLen |->
        IF i <= z THEN "0"
        ELSE IF i = z + 1 THEN "f"
        ELSE IF (i - z) % 2 = 0 THEN "0" ELSE "c"]

Digests == {MkDigest(z) : z \in 0..MaxZeros}

\* ------------------------------------------------------------- requests
Datas == {<<"a">>, <<"a", "|", "1">>}
StartNonces == {-1, 9}

MineRequest(d, k, s, m, t) ==
    [data |-> d, difficulty |-> k, start_nonce |-> s, max_hashes |-> m,
     time_limit_ms |-> t]

\* the field defaults of MineRequest (main.py:21-25); the request of an
\* invocation that has not been received yet
DefaultRequest ==
    MineRequest(<<"H", "e", "l", "l", "o", ",", " ", "B", "i", "t", "c", "o", "i", "n", "!">>,
                4, 0, 200000, 1500)

\* requests that may run the search loop
SearchRequests ==
    {MineRequest(d, k, s, m, t) :
        d \in Datas, k \in {1, 2}, s \in StartNonces,
        m \in {0, MaxHashes}, t \in {1, MaxClock + 1}}

\* boundary and rejected requests
EdgeRequests ==
    {MineRequest(<<"a">>, k, 9, m, t) :
        k \in {0, MinDifficulty, MaxDifficulty, MaxDifficulty + 1},
        m \in {-1, MaxHashes, HardCap, HardCap + 1},
        t \in {-1, 0}}

\* the requests of a second caller that repeats a search while the first runs
RepeatRequests ==
    {MineRequest(<<"a">>, 1, 9, MaxHashes, MaxClock + 1)}

Requests == SearchRequests \cup EdgeRequests

RequestsOf(r) == IF r = "r1" THEN Requests ELSE RepeatRequests

\* the requests of the first caller in the runs checked for termination
LiveRequests ==
    {q \in Requests : q.data = <<"a">> /\ q.start_nonce = 9 /\ q.difficulty # 2}

LiveRequestsOf(r) == IF r = "r1" THEN LiveRequests ELSE RepeatRequests

\* an upper bound that is off by one
ValidDifficultyLoose(k) == k >= MinDifficulty /\ k <= MaxDifficulty + 1

\* conint(ge=1, le=7)
ValidDifficulty(k) == k >= MinDifficulty /\ k <= MaxDifficulty

\* ---------------------------------------------------------------- state
VARIABLES
    now,            \* time.perf_counter(), in milliseconds
    sha256table,    \* the values of hashlib.sha256 fixed so far: payload -> digest
    pc,             \* position of each invocation
    req,            \* the MineRequest of each invocation
    status,         \* HTTP status of the response, NoStatus before it is sent
    target_prefix, start, tried, nonce, deadline, found_hash, found_nonce,
    attempted,      \* the nonces hashed so far, in order
    result          \* the MineResult returned, None before

vars == <<now, sha256table, pc, req, status, target_prefix, start, tried, nonce,
          deadline, found_hash, found_nonce, attempted, result>>

locals == <<target_prefix, start, tried, nonce, deadline, found_hash, found_nonce,
            attempted>>

Init ==
    /\ now = 0
    /\ sha256table = << >>
    /\ pc = [r \in Reqs |-> "idle"]
    /\ req = [r \in Reqs |-> DefaultRequest]
    /\ status = [r \in Reqs |-> NoStatus]
    /\ target_prefix = [r \in Reqs |-> None]
    /\ start = [r \in Reqs |-> 0]
    /\ tried = [r \in Reqs |-> 0]
    /\ nonce = [r \in Reqs |-> 0]
    /\ deadline = [r \in Reqs |-> 0]
    /\ found_hash = [r \in Reqs |-> None]
    /\ found_nonce = [r \in Reqs |-> None]
    /\ attempted = [r \in Reqs |-> << >>]
    /\ result = [r \in Reqs |-> None]

\* ------------------------------------------------------------- the code
\* a payload that also carries the clock reading
PayloadWithTime(data, n) == data \o <<"|">> \o ToDecimal(n) \o <<"|">> \o ToDecimal(now)

\* main.py:107  f"{req.data}|{nonce}"
Payload(data, n) == data \o <<"|">> \o ToDecimal(n)

\* a cap that is off by one
OverHardCapLoose(m) == m > HardCap + 1

\* main.py:92  req.max_hashes > 1_000_000
OverHardCap(m) == m > HardCap

\* a cursor that starts one past the origin
StartCursorSkip(r) == req[r].start_nonce + 1

\* main.py:100  nonce = req.start_nonce
StartCursor(r) == req[r].start_nonce

\* a count check that lets one more attempt through
UnderCountLoose(t, m) == t <= m

\* main.py:106  tried < req.max_hashes
UnderCount(t, m) == t < m

\* a deadline check that still passes at the deadline
BeforeDeadlineLoose(t, d) == t <= d

\* main.py:106  time.perf_counter() < deadline
BeforeDeadline(t, d) == t < d

\* a cursor that advances by two
NextNonceSkip(n) == n + 2

\* main.py:114  nonce += 1
NextNonce(n) == n + 1

\* a result whose found flag is set by any attempt
MineResultFoundByTried(r, elapsed) ==
    [found |-> tried[r] > 0,
     nonce |-> found_nonce[r],
     hash_hex |-> found_hash[r],
     tried_hashes |-> tried[r],
     elapsed_ms |-> elapsed,
     target_prefix |-> target_prefix[r]]

\* main.py:118-125
MineResult(r, elapsed) ==
    [found |-> found_nonce[r] # None,
     nonce |-> found_nonce[r],
     hash_hex |-> found_hash[r],
     tried_hashes |-> tried[r],
     elapsed_ms |-> elapsed,
     target_prefix |-> target_prefix[r]]

\* a search without a match answered as a server error
ReturnStatusErrorOnMiss(r) == IF found_nonce[r] = None THEN 500 ELSE HTTP_OK

\* status of the response that carries the MineResult
ReturnStatus(r) == HTTP_OK

\* The framework parses the body into a MineRequest; a difficulty outside
\* conint(ge=1, le=7) fails validation and mine is never called.
ReceiveFrom(r, Q) ==
    /\ pc[r] = "idle"
    /\ \E q \in Q :
        /\ req' = [req EXCEPT ![r] = q]
        /\ IF ValidDifficulty(q.difficulty)
           THEN /\ pc' = [pc EXCEPT ![r] = "mine"]
                /\ UNCHANGED status
           ELSE /\ pc' = [pc EXCEPT ![r] = "done"]
                /\ status' = [status EXCEPT ![r] = HTTP_UNPROCESSABLE]
    /\ UNCHANGED <<now, sha256table, locals, result>>

Receive(r) == ReceiveFrom(r, RequestsOf(r))

LiveReceive(r) == ReceiveFrom(r, LiveRequestsOf(r))

\* main.py:92-104
MineEnter(r) ==
    /\ pc[r] = "mine"
    /\ IF OverHardCap(req[r].max_hashes)
       THEN /\ pc' = [pc EXCEPT ![r] = "done"]
            /\ status' = [status EXCEPT ![r] = HTTP_BAD_REQUEST]
            /\ UNCHANGED locals
       ELSE /\ target_prefix' = [target_prefix EXCEPT ![r] = Repeat("0", req[r].difficulty)]
            /\ start' = [start EXCEPT ![r] = now]
            /\ tried' = [tried EXCEPT ![r] = 0]
            /\ nonce' = [nonce EXCEPT ![r] = StartCursor(r)]
            /\ deadline' = [deadline EXCEPT ![r] = now + req[r].time_limit_ms]
            /\ found_hash' = [found_hash EXCEPT ![r] = None]
            /\ found_nonce' = [found_nonce EXCEPT ![r] = None]
            /\ pc' = [pc EXCEPT ![r] = "loop"]
            /\ UNCHANGED <<status, attempted>>
    /\ UNCHANGED <<now, sha256table, req, result>>

\* main.py:106  the loop condition, evaluated at the clock reading `now`
LoopCheck(r) ==
    /\ pc[r] = "loop"
    /\ pc' = [pc EXCEPT ![r] =
                IF /\ UnderCount(tried[r], req[r].max_hashes)
                   /\ BeforeDeadline(now, deadline[r])
                THEN "hash" ELSE "exit"]
    /\ UNCHANGED <<now, sha256table, req, status, target_prefix, start, tried, nonce,
                   deadline, found_hash, found_nonce, attempted, result>>

\* main.py:107-114  one hash attempt
Hash(r) ==
    /\ pc[r] = "hash"
    /\ LET payload == Payload(req[r].data, nonce[r]) IN
       \E digest \in Digests :
        /\ IF payload \in DOMAIN sha256table
           THEN digest = sha256table[payload] /\ UNCHANGED sha256table
           ELSE sha256table' = (payload :> digest) @@ sha256table
        /\ tried' = [tried EXCEPT ![r] = @ + 1]
        /\ attempted' = [attempted EXCEPT ![r] = Append(@, nonce[r])]
        /\ IF StartsWith(digest, target_prefix[r])
           THEN /\ found_hash' = [found_hash EXCEPT ![r] = digest]
                /\ found_nonce' = [found_nonce EXCEPT ![r] = Some(nonce[r])]
                /\ pc' = [pc EXCEPT ![r] = "exit"]
                /\ UNCHANGED nonce
           ELSE /\ nonce' = [nonce EXCEPT ![r] = NextNonce(@)]
                /\ pc' = [pc EXCEPT ![r] = "loop"]
                /\ UNCHANGED <<found_hash, found_nonce>>
    /\ UNCHANGED <<now, req, status, target_prefix, start, deadline, result>>

\* main.py:116  int((time.perf_counter() - start) * 1000), the clock being in ms
Elapsed(t, s) == t - s

\* main.py:116-125
Return(r) ==
    /\ pc[r] = "exit"
    /\ result' = [result EXCEPT ![r] = Some(MineResult(r, Elapsed(now, start[r])))]
    /\ status' = [status EXCEPT ![r] = ReturnStatus(r)]
    /\ pc' = [pc EXCEPT ![r] = "done"]
    /\ UNCHANGED <<now, sha256table, req, locals>>

\* the monotonic clock advances
Tick ==
    /\ now < MaxClock
    /\ now' = now + 1
    /\ UNCHANGED <<sha256table, pc, req, status, locals, result>>

Run(r) == MineEnter(r) \/ LoopCheck(r) \/ Hash(r) \/ Return(r)

Next == \/ \E r \in Reqs : Receive(r)
        \/ \E r \in Reqs : MineEnter(r)
        \/ \E r \in Reqs : LoopCheck(r)
        \/ \E r \in Reqs : Hash(r)
        \/ \E r \in Reqs : Return(r)
        \/ Tick

Spec == Init /\ [][Next]_vars

LiveNext == \/ \E r \in Reqs : LiveReceive(r)
            \/ \E r \in Reqs : MineEnter(r)
            \/ \E r \in Reqs : LoopCheck(r)
            \/ \E r \in Reqs : Hash(r)
            \/ \E r \in Reqs : Return(r)
            \/ Tick

\* a handler that has been called runs to its end
LiveSpec == Init /\ [][LiveNext]_vars /\ \A r \in Reqs : WF_vars(Run(r))

\* ------------------------------------------------------------- claims
Running(r) == pc[r] \in {"loop", "hash", "exit"}
Returned(r) == pc[r] = "done" /\ status[r] = HTTP_OK /\ result[r] # None
Res(r) == result[r][1]
Max(a, b) == IF a >= b THEN a ELSE b
InRange(k) == k >= 1 /\ k <= 7
\* the payload of nonce k for the request of r, spelled out
PayloadOf(r, k) == req[r].data \o <<"|">> \o ToDecimal(k)
Matches(r, k) ==
    /\ PayloadOf(r, k) \in DOMAIN sha256table
    /\ LeadingZeros(sha256table[PayloadOf(r, k)]) >= req[r].difficulty

\* C1 as stated: for every validated request tried <= max_hashes, in every
\* state of the loop and in the result.
C1_Original ==
    \A r \in Reqs :
        /\ Running(r) => tried[r] <= req[r].max_hashes
        /\ Returned(r) => Res(r).tried_hashes <= req[r].max_hashes

\* C1 amended: for every validated request tried <= max(max_hashes, 0), in
\* every state of the loop and in the result (a negative max_hashes is
\* accepted and yields tried_hashes = 0).
C1_TriedWithinCap ==
    \A r \in Reqs :
        /\ Running(r) => tried[r] <= Max(req[r].max_hashes, 0)
        /\ Returned(r) => Res(r).tried_hashes <= Max(req[r].max_hashes, 0)

C1_Witness ==
    \E r \in Reqs :
        /\ Returned(r) /\ ~Res(r).found
        /\ req[r].max_hashes > 0
        /\ Res(r).tried_hashes = req[r].max_hashes

\* C2: a request with valid difficulty and max_hashes > 1,000,000 never
\* enters the search, makes no hash attempt and is answered with status 400.
C2_OverCapRejected ==
    \A r \in Reqs :
        (pc[r] # "idle" /\ req[r].max_hashes > 1000000 /\ InRange(req[r].difficulty)) =>
            /\ pc[r] \in {"mine", "done"}
            /\ tried[r] = 0 /\ attempted[r] = << >> /\ result[r] = None
            /\ pc[r] = "done" => status[r] = 400

C2_Witness ==
    \E r \in Reqs :
        /\ pc[r] = "done" /\ status[r] = 400
        /\ req[r].max_hashes = 1000001
        /\ \E q \in Reqs : tried[q] > 0

\* C3 as stated: a request whose difficulty is outside [1,7] is answered with
\* status 400 before the search begins, with no hash attempt.
C3_Original ==
    \A r \in Reqs :
        (pc[r] # "idle" /\ ~InRange(req[r].difficulty)) =>
            /\ pc[r] = "done" /\ status[r] = 400
            /\ tried[r] = 0 /\ attempted[r] = << >> /\ result[r] = None

\* C3 amended: a request whose difficulty is outside [1,7] is rejected by
\* request validation with status 422 before mine is called, with no hash
\* attempt.
C3_BadDifficultyRejected ==
    \A r \in Reqs :
        (pc[r] # "idle" /\ ~InRange(req[r].difficulty)) =>
            /\ pc[r] = "done" /\ status[r] = 422
            /\ tried[r] = 0 /\ attempted[r] = << >> /\ result[r] = None

C3_Witness ==
    \E r \in Reqs :
        /\ pc[r] = "done" /\ status[r] = 422
        /\ req[r].difficulty = 8

\* C4 as stated: when found, hash_hex is the hash of data|nonce and has
\* exactly `difficulty` leading '0' characters.
C4_Original ==
    \A r \in Reqs :
        (Returned(r) /\ Res(r).found) =>
            /\ PayloadOf(r, Res(r).nonce[1]) \in DOMAIN sha256table
            /\ Res(r).hash_hex = sha256table[PayloadOf(r, Res(r).nonce[1])]
            /\ LeadingZeros(Res(r).hash_hex) = req[r].difficulty

\* C4 amended: when found, hash_hex is the hash of data|nonce and has at
\* least `difficulty` leading '0' characters.
C4_HashMatches ==
    \A r \in Reqs :
        (Returned(r) /\ Res(r).found) =>
            /\ PayloadOf(r, Res(r).nonce[1]) \in DOMAIN sha256table
            /\ Res(r).hash_hex = sha256table[PayloadOf(r, Res(r).nonce[1])]
            /\ Len(Res(r).hash_hex) = 64
            /\ LeadingZeros(Res(r).hash_hex) >= req[r].difficulty

C4_Witness ==
    \E r \in Reqs :
        /\ Returned(r) /\ Res(r).found
        /\ req[r].difficulty = 2
        /\ LeadingZeros(Res(r).hash_hex) = 2

\* C5: when found with nonce n, every k in start_nonce..n-1 was hashed and
\* did not satisfy the prefix condition; the nonces are attempted in
\* increasing order by 1 from start_nonce, and no attempt follows a match.
C5_FirstMatch ==
    \A r \in Reqs :
        /\ (Returned(r) /\ Res(r).found) =>
              \A k \in req[r].start_nonce .. (Res(r).nonce[1] - 1) :
                  /\ PayloadOf(r, k) \in DOMAIN sha256table
                  /\ ~Matches(r, k)
        /\ \A i \in 1..Len(attempted[r]) :
              /\ i > 1 => attempted[r][i] = attempted[r][i - 1] + 1
              /\ i < Len(attempted[r]) => ~Matches(r, attempted[r][i])
        /\ found_nonce[r] # None =>
              /\ pc[r] \in {"exit", "done"}
              /\ attempted[r][Len(attempted[r])] = found_nonce[r][1]

C5_Witness ==
    \E r \in Reqs :
        /\ Returned(r) /\ Res(r).found
        /\ Res(r).nonce[1] > req[r].start_nonce

\* C6: in every returned result, found holds iff nonce is present and iff
\* hash_hex is present.
C6_FoundIffPresent ==
    \A r \in Reqs :
        Returned(r) =>
            /\ Res(r).found <=> Res(r).nonce # None
            /\ Res(r).found <=> Res(r).hash_hex # None

C6_Witness ==
    \E r, q \in Reqs :
        /\ Returned(r) /\ ~Res(r).found /\ Res(r).tried_hashes > 0
        /\ Returned(q) /\ Res(q).found

\* C7: a hash attempt begins only after a clock reading below the deadline,
\* and a request with time_limit_ms <= 0 makes no attempt.
C7_DeadlineBeforeAttempt ==
    /\ [][\A r \in Reqs :
            (pc[r] # "hash" /\ pc'[r] = "hash") => now < start[r] + req[r].time_limit_ms]_vars
    /\ [](\A r \in Reqs :
            (Running(r) /\ req[r].time_limit_ms <= 0) =>
                (tried[r] = 0 /\ pc[r] # "hash"))

C7_Witness ==
    \E r \in Reqs :
        /\ pc[r] = "hash"
        /\ now >= deadline[r]
        /\ tried[r] > 0

\* C8: two returned searches with the same data, difficulty and start_nonce
\* that both found a match carry the same nonce and hash_hex, whatever the
\* interleaving and whatever their clock readings.
C8_Deterministic ==
    \A r, q \in Reqs :
        (/\ Returned(r) /\ Returned(q)
         /\ req[r].data = req[q].data
         /\ req[r].difficulty = req[q].difficulty
         /\ req[r].start_nonce = req[q].start_nonce
         /\ Res(r).found /\ Res(q).found) =>
            /\ Res(r).nonce = Res(q).nonce
            /\ Res(r).hash_hex = Res(q).hash_hex

C8_Witness ==
    /\ Returned("r1") /\ Returned("r2")
    /\ req["r1"].data = req["r2"].data
    /\ req["r1"].difficulty = req["r2"].difficulty
    /\ req["r1"].start_nonce = req["r2"].start_nonce
    /\ Res("r1").found /\ Res("r2").found
    /\ Res("r1").nonce[1] > req["r1"].start_nonce
    /\ Res("r1").elapsed_ms # Res("r2").elapsed_ms

\* C9: every request that passes validation eventually returns a MineResult
\* with status 200; the loop is left only on a match, on tried reaching
\* max_hashes or on the clock reaching the deadline, and a return without a
\* match is a normal result with found = FALSE.
C9_Terminates ==
    /\ \A r \in Reqs :
          (pc[r] = "mine" /\ req[r].max_hashes <= 1000000) ~> Returned(r)
    /\ [](\A r \in Reqs :
            /\ pc[r] = "exit" =>
                  \/ found_nonce[r] # None
                  \/ tried[r] >= req[r].max_hashes
                  \/ now >= deadline[r]
            /\ (pc[r] = "done" /\ InRange(req[r].difficulty)
                    /\ req[r].max_hashes <= 1000000) =>
                  /\ status[r] = 200
                  /\ result[r] # None
                  /\ (found_nonce[r] = None => Res(r).found = FALSE))

C9_Witness ==
    \E r \in Reqs :
        /\ Returned(r) /\ ~Res(r).found
        /\ Res(r).tried_hashes > 0
        /\ Res(r).tried_hashes < req[r].max_hashes

\* C10: in the loop the cursor is start_nonce plus the number of failed
\* attempts, the nonces attempted are exactly start_nonce ..
\* start_nonce + tried - 1, each once; on return tried_hashes =
\* nonce - start_nonce + 1 when found, and tried_hashes >= 0 always.
C10_CursorInvariant ==
    \A r \in Reqs :
        /\ Running(r) =>
              /\ nonce[r] = req[r].start_nonce + tried[r]
                              - (IF found_nonce[r] # None THEN 1 ELSE 0)
              /\ attempted[r] = [i \in 1..tried[r] |-> req[r].start_nonce + i - 1]
        /\ tried[r] >= 0
        /\ Returned(r) =>
              /\ Res(r).tried_hashes >= 0
              /\ Res(r).found =>
                    Res(r).tried_hashes = Res(r).nonce[1] - req[r].start_nonce + 1

C10_Witness ==
    \E r \in Reqs :
        /\ Returned(r) /\ Res(r).found
        /\ req[r].start_nonce = -1
        /\ Res(r).tried_hashes = 2

TypeOK ==
    /\ now \in 0..MaxClock
    /\ \A r \in Reqs :
        /\ pc[r] \in {"idle", "mine", "loop", "hash", "exit", "done"}
        /\ status[r] \in {NoStatus, HTTP_OK, HTTP_BAD_REQUEST, HTTP_UNPROCESSABLE}
        /\ tried[r] \in Nat

====
